---- MODULE Spec2Model ----
(***************************************************************************)
(* A model of the PictureAsset React component                             *)
(* (src/Frontend/React/picutreAsset.js): the pure render function, the     *)
(* two pieces of instance state it keeps in hooks (show, inView) and the   *)
(* events that change them.                                                *)
(*                                                                         *)
(* JavaScript values are records tagged by their type in field t, so that  *)
(* null, undefined, numbers, strings and objects can be told apart and     *)
(* the language's truthiness, typeof and division can be modelled as the   *)
(* language defines them.  Numbers are non-negative rationals n/d in       *)
(* lowest terms, plus NaN and Infinity.  Strings are TLA+ strings.         *)
(***************************************************************************)
EXTENDS Integers, Sequences, FiniteSets, TLC

VARIABLES props, show, inView, mounted, out, visSignals, loadSignals, lateSignals

vars == <<props, show, inView, mounted, out, visSignals, loadSignals, lateSignals>>

----------------------------------------------------------------------------
(* Bounds of the model *)

\* how many viewport-intersection reports / load events one instance is sent
\* while mounted, and how many after it was unmounted
MaxSignals == 2

----------------------------------------------------------------------------
(* JavaScript values *)

Undef == [t |-> "undefined"]
Null == [t |-> "null"]
NaN == [t |-> "NaN"]
Infinity == [t |-> "Infinity"]
Str(s) == [t |-> "string", s |-> s]
Elem(name) == [t |-> "element", name |-> name]

RECURSIVE Gcd(_, _)
Gcd(a, b) == IF b = 0 THEN a ELSE Gcd(b, a % b)

\* the number n/d (n >= 0, d > 0), in lowest terms
Num(n, d) == [t |-> "number", n |-> n \div Gcd(n, d), d |-> d \div Gcd(n, d)]
IntVal(n) == Num(n, 1)

\* ToBoolean
Truthy(v) ==
  CASE v.t = "undefined" -> FALSE
    [] v.t = "null" -> FALSE
    [] v.t = "NaN" -> FALSE
    [] v.t = "number" -> v.n # 0
    [] v.t = "string" -> v.s # ""
    [] OTHER -> TRUE

\* typeof v === 'number'
IsNumberType(v) == v.t \in {"number", "NaN", "Infinity"}

\* ToNumber; the only strings of the model are "" and non-numeric ones
ToNumber(v) ==
  CASE v.t \in {"number", "NaN", "Infinity"} -> v
    [] v.t = "null" -> IntVal(0)
    [] v.t = "string" -> IF v.s = "" THEN IntVal(0) ELSE NaN
    [] OTHER -> NaN

\* a / b on non-negative operands
JsDiv(x, y) ==
  LET a == ToNumber(x)
      b == ToNumber(y)
  IN  CASE a.t = "NaN" \/ b.t = "NaN" -> NaN
        [] a.t = "Infinity" /\ b.t = "Infinity" -> NaN
        [] a.t = "Infinity" -> Infinity
        [] b.t = "Infinity" -> IntVal(0)
        [] b.n = 0 /\ a.n = 0 -> NaN
        [] b.n = 0 -> Infinity
        [] OTHER -> Num(a.n * b.d, a.d * b.n)

\* a <= b on numbers (false as soon as one side is NaN)
JsLeq(a, b) ==
  CASE a.t = "NaN" \/ b.t = "NaN" -> FALSE
    [] b.t = "Infinity" -> TRUE
    [] a.t = "Infinity" -> FALSE
    [] OTHER -> a.n * b.d <= b.n * a.d

\* a || b
JsOr(a, b) == IF Truthy(a) THEN a ELSE b

\* the digits after the decimal point of r/d (r < d), at most k of them
RECURSIVE FracDigits(_, _, _)
FracDigits(r, d, k) ==
  IF r = 0 \/ k = 0 THEN ""
  ELSE ToString((r * 10) \div d) \o FracDigits((r * 10) % d, d, k - 1)

\* Number-to-string conversion of a template literal, for the numbers whose
\* decimal expansion terminates
NumberToString(v) ==
  CASE v.t = "NaN" -> "NaN"
    [] v.t = "Infinity" -> "Infinity"
    [] v.d = 1 -> ToString(v.n)
    [] OTHER -> ToString(v.n \div v.d) \o "." \o FracDigits(v.n % v.d, v.d, 17)

----------------------------------------------------------------------------
(* Module constants of the source *)

defaultBreakpoints == <<1200, 1000, 800, 600, 400>>
DEFAULT_MAX_WIDTH == 1780

\* the class names of picture-asset.module.scss
styles ==
  [assetWrapper |-> "assetWrapper", hider |-> "hider", hide |-> "hide",
   lqip |-> "lqip", cover |-> "cover", contain |-> "contain",
   aspectRatio |-> "aspectRatio", picture |-> "picture", show |-> "show",
   image |-> "image", fluid |-> "fluid"]

RECURSIVE Join(_, _)
\* Array.prototype.join on an array of strings
Join(strs, sep) ==
  IF Len(strs) = 0 THEN ""
  ELSE IF Len(strs) = 1 THEN strs[1]
  ELSE strs[1] \o sep \o Join(Tail(strs), sep)

RECURSIVE TruthyStrings(_)
TruthyStrings(args) ==
  IF Len(args) = 0 THEN <<>>
  ELSE (IF Truthy(args[1]) THEN <<args[1].s>> ELSE <<>>) \o TruthyStrings(Tail(args))

\* clsx(...): the truthy arguments (all strings here), joined by one space
clsx(args) == Join(TruthyStrings(args), " ")

\* a && b, for a boolean a and a class name b: false is dropped by clsx
AndClass(a, b) == IF a THEN Str(b) ELSE Null

----------------------------------------------------------------------------
(* The URL builder of lib/image-url (outside the component): a pure         *)
(* function of the asset's identity, the width and the format asked for.   *)
(* format = "" stands for a chain without a .format() call.                *)

imageUrlFor(image, width, format) ==
  "https://cdn.sanity.io/" \o JsOr(image.asset._ref, image.asset._id).s
    \o "?w=" \o NumberToString(width)
    \o (IF format = "" THEN "" ELSE "&fm=" \o format)

----------------------------------------------------------------------------
(* breakPointsToString *)

RECURSIVE FilterBreakPoints(_, _)
\* the filter with a strict comparison
FilterBreakPointsStrict(breakPoints, maxWidth) ==
  SelectSeq(breakPoints,
            LAMBDA b : JsLeq(IntVal(b), maxWidth) /\ IntVal(b) # maxWidth)

\* breakPoints.filter(breakPoint => breakPoint <= maxWidth)
FilterBreakPoints(breakPoints, maxWidth) ==
  IF Len(breakPoints) = 0 THEN <<>>
  ELSE (IF JsLeq(IntVal(breakPoints[1]), maxWidth) THEN <<breakPoints[1]>> ELSE <<>>)
         \o FilterBreakPoints(Tail(breakPoints), maxWidth)

\* .map(breakPoint => `${urlBuilder.url()} ${breakPoint}w`)
MapBreakPoints(image, format, kept) ==
  [i \in 1..Len(kept) |->
     imageUrlFor(image, IntVal(kept[i]), format) \o " " \o ToString(kept[i]) \o "w"]

breakPointsToString(image, format, maxWidth, breakPoints) ==
  Join(MapBreakPoints(image, format, FilterBreakPoints(breakPoints, maxWidth)), ", ")

----------------------------------------------------------------------------
(* PictureAsset: the render function.  p is the props object after the     *)
(* destructuring defaults and defaultProps have been applied; show and     *)
(* inView are the values the two hooks return for this render.             *)

\* !image.asset || !(image.asset._ref || image.asset._id)
InvalidAsset(image) ==
  \/ ~Truthy(image.asset)
  \/ ~Truthy(JsOr(image.asset._ref, image.asset._id))

\* const { metadata = {} } = asset; const { lqip = '', dimensions = {} } = metadata
lqipOf(image) ==
  IF image.asset.metadata.t = "undefined" THEN Str("")
  ELSE image.asset.metadata.lqip

dimensionsAspectRatio(image) ==
  IF image.asset.metadata.t = "undefined" THEN Undef
  ELSE IF image.asset.metadata.dimensions.t = "undefined" THEN Undef
  ELSE image.asset.metadata.dimensions.aspectRatio

\* the sizing check without its height operand
MissingSizingNoHeight(p) == ~p.isFluid /\ ~Truthy(p.width)

\* !isFluid && !width && !height
MissingSizing(p) == ~p.isFluid /\ ~Truthy(p.width) /\ ~Truthy(p.height)

computedWidth(p) ==
  IF p.isFluid THEN Str("100%")
  ELSE IF IsNumberType(p.width) THEN p.width ELSE p.maxWidth

\* the fixed-mode height derived from the explicit aspectRatio option
computedHeightFromOption(p) ==
  IF p.isFluid
  THEN (IF ~Truthy(p.height) THEN Str("100%") ELSE p.height)
  ELSE JsOr(p.height,
            JsDiv(p.width, JsOr(p.aspectRatio, dimensionsAspectRatio(p.image))))

computedHeight(p) ==
  IF p.isFluid
  THEN (IF ~Truthy(p.height) THEN Str("100%") ELSE p.height)
  ELSE JsOr(p.height, JsDiv(p.width, dimensionsAspectRatio(p.image)))

\* the webp source set filtered at maxWidth in both modes
webpSrcSetAtMaxWidth(p) ==
  breakPointsToString(p.image, "webp", p.maxWidth, p.breakPoints)

webpSrcSet(p) ==
  IF p.isFluid
  THEN breakPointsToString(p.image, "webp", p.maxWidth, p.breakPoints)
  ELSE breakPointsToString(p.image, "webp", computedWidth(p), p.breakPoints)

defaultSrcSet(p) ==
  IF p.isFluid
  THEN breakPointsToString(p.image, p.image.asset.extension, p.maxWidth, p.breakPoints)
  ELSE breakPointsToString(p.image, p.image.asset.extension, computedWidth(p), p.breakPoints)

\* const url = imageUrlFor(image).width(maxWidth).url()
url(p) == imageUrlFor(p.image, p.maxWidth, "")

\* objectFit === 'cover' ? styles.cover : styles.contain
fitClass(p) == IF p.objectFit = "cover" THEN Str(styles.cover) ELSE Str(styles.contain)

\* the placeholder layer without the hide class
hiderLayerNeverHidden(p, shown) ==
  [name |-> "div",
   className |-> clsx(<<Str(styles.hider)>>),
   children |->
     <<IF Truthy(p.loader) THEN p.loader
       ELSE [name |-> "img", src |-> JsOr(lqipOf(p.image), Str("")).s,
             className |-> clsx(<<Str(styles.lqip), fitClass(p)>>),
             alt |-> "Placeholder"]>>]

\* <div className={clsx(styles.hider, show && styles.hide)}> loader || <img lqip/> </div>
hiderLayer(p, shown) ==
  [name |-> "div",
   className |-> clsx(<<Str(styles.hider), AndClass(shown, styles.hide)>>),
   children |->
     <<IF Truthy(p.loader) THEN p.loader
       ELSE [name |-> "img", src |-> JsOr(lqipOf(p.image), Str("")).s,
             className |-> clsx(<<Str(styles.lqip), fitClass(p)>>),
             alt |-> "Placeholder"]>>]

\* the reservation computed from the intrinsic ratio alone
paddingTopIntrinsic(p) ==
  NumberToString(JsDiv(IntVal(100), dimensionsAspectRatio(p.image))) \o "%"

\* paddingTop: `${100 / (aspectRatio || dimensions.aspectRatio)}%`
paddingTop(p) ==
  NumberToString(JsDiv(IntVal(100), JsOr(p.aspectRatio, dimensionsAspectRatio(p.image))))
    \o "%"

\* {isFluid && <div className={styles.aspectRatio} style={{ paddingTop }} />}
spacerLayer(p) ==
  IF p.isFluid
  THEN <<[name |-> "div", className |-> styles.aspectRatio,
          style |-> [paddingTop |-> paddingTop(p)]]>>
  ELSE <<>>

\* the gated children with the two sources in the other order
pictureChildrenSwapped(p, visible) ==
  IF visible
  THEN <<[name |-> "source", type |-> p.image.asset.mimeType,
          srcSet |-> defaultSrcSet(p), sizes |-> p.sizes, onLoad |-> FALSE],
         [name |-> "source", type |-> "image/webp", srcSet |-> webpSrcSet(p),
          sizes |-> p.sizes, onLoad |-> FALSE],
         [name |-> "img",
          className |-> clsx(<<Str(styles.image), AndClass(p.isFluid, styles.fluid),
                               fitClass(p)>>),
          onLoad |-> TRUE, src |-> url(p), srcSet |-> defaultSrcSet(p),
          alt |-> p.alt, sizes |-> p.sizes]>>
  ELSE <<>>

\* the children rendered without the inView gate
pictureChildrenUngated(p, visible) ==
  <<[name |-> "source", type |-> "image/webp", srcSet |-> webpSrcSet(p),
     sizes |-> p.sizes, onLoad |-> FALSE],
    [name |-> "source", type |-> p.image.asset.mimeType,
     srcSet |-> defaultSrcSet(p), sizes |-> p.sizes, onLoad |-> FALSE],
    [name |-> "img",
     className |-> clsx(<<Str(styles.image), AndClass(p.isFluid, styles.fluid),
                          fitClass(p)>>),
     onLoad |-> TRUE, src |-> url(p), srcSet |-> defaultSrcSet(p),
     alt |-> p.alt, sizes |-> p.sizes]>>

\* {inView && <> <source webp/> <source native/> <img onLoad/> </>}
pictureChildren(p, visible) ==
  IF visible
  THEN <<[name |-> "source", type |-> "image/webp", srcSet |-> webpSrcSet(p),
          sizes |-> p.sizes, onLoad |-> FALSE],
         [name |-> "source", type |-> p.image.asset.mimeType,
          srcSet |-> defaultSrcSet(p), sizes |-> p.sizes, onLoad |-> FALSE],
         [name |-> "img",
          className |-> clsx(<<Str(styles.image), AndClass(p.isFluid, styles.fluid),
                               fitClass(p)>>),
          onLoad |-> TRUE, src |-> url(p), srcSet |-> defaultSrcSet(p),
          alt |-> p.alt, sizes |-> p.sizes]>>
  ELSE <<>>

\* <picture className={clsx(styles.picture, show && styles.show)}>
pictureLayer(p, shown, visible) ==
  [name |-> "picture",
   className |-> clsx(<<Str(styles.picture), AndClass(shown, styles.show)>>),
   children |-> pictureChildren(p, visible)]

\* the early return for vector assets
svgElement(p) ==
  [name |-> "img", src |-> p.image.asset.url, alt |-> p.alt,
   className |-> p.className]

\* the returned <div ref={ref}> tree
wrapperElement(p, shown, visible) ==
  [name |-> "div", ref |-> TRUE,
   className |-> clsx(<<Str(styles.assetWrapper), p.className>>),
   style |-> [width |-> computedWidth(p), height |-> computedHeight(p)],
   children |-> <<hiderLayer(p, shown)>> \o spacerLayer(p)
                  \o <<pictureLayer(p, shown, visible)>>]

\* The result of one call: what it returned (ret; kind says which return
\* statement), whether it threw, and whether it wrote to console.error.
Returned(kind, ret, logged) ==
  [kind |-> kind, ret |-> ret, threw |-> FALSE, logged |-> logged]

Thrown(message) ==
  [kind |-> "throw", ret |-> [message |-> message], threw |-> TRUE, logged |-> FALSE]

\* the render function with the sizing check moved before the validity check
PictureAssetSizingFirst(p, shown, visible) ==
  IF MissingSizing(p)
  THEN Thrown("Picture Asset component requires one of isFluid or width or height")
  ELSE IF InvalidAsset(p.image)
  THEN Returned("null", Null, TRUE)
  ELSE IF p.image.asset.extension = "svg"
  THEN Returned("svg", svgElement(p), FALSE)
  ELSE Returned("raster", wrapperElement(p, shown, visible), FALSE)

PictureAsset(p, shown, visible) ==
  IF InvalidAsset(p.image)
  THEN Returned("null", Null, TRUE)
  ELSE IF MissingSizing(p)
  THEN Thrown("Picture Asset component requires one of isFluid or width or height")
  ELSE IF p.image.asset.extension = "svg"
  THEN Returned("svg", svgElement(p), FALSE)
  ELSE Returned("raster", wrapperElement(p, shown, visible), FALSE)

----------------------------------------------------------------------------
(* The inputs the component is rendered with *)

Metadata(lqip, ratio) ==
  [t |-> "object", lqip |-> lqip,
   dimensions |-> [t |-> "object", aspectRatio |-> ratio]]

Asset(ref, id, extension, mimeType, metadata) ==
  [t |-> "object", _ref |-> ref, _id |-> id, extension |-> extension,
   mimeType |-> mimeType,
   url |-> "https://cdn.sanity.io/" \o JsOr(JsOr(ref, id), Str("anon")).s
             \o "." \o extension,
   metadata |-> metadata]

Images ==
  { [asset |-> Undef],
    [asset |-> Asset(Undef, Undef, "svg", "image/svg+xml", Undef)],
    [asset |-> Asset(Str("image-a"), Undef, "png", "image/png",
                     Metadata(Str("data:image/png;base64,AA"), Num(2, 1)))],
    [asset |-> Asset(Undef, Str("image-b"), "jpg", "image/jpeg",
                     Metadata(Str(""), Num(1, 2)))],
    [asset |-> Asset(Str("image-c"), Undef, "png", "image/png", Undef)],
    [asset |-> Asset(Str("image-d"), Undef, "svg", "image/svg+xml",
                     Metadata(Str(""), Num(2, 1)))] }

Widths == {Null, IntVal(0), IntVal(400), Str("50%")}
Heights == {Null, IntVal(0), IntVal(300)}
AspectRatios == {Undef, IntVal(0), IntVal(4)}
MaxWidths == {IntVal(DEFAULT_MAX_WIDTH), IntVal(600)}
BreakPointLists == {defaultBreakpoints, <<400, 700, 400>>}
Loaders == {Undef}
ObjectFits == {"cover"}

\* the domain of each prop
PropDomain ==
  [image |-> Images, isFluid |-> BOOLEAN, objectFit |-> ObjectFits,
   maxWidth |-> MaxWidths, width |-> Widths, height |-> Heights,
   aspectRatio |-> AspectRatios, alt |-> {""}, className |-> {Null},
   breakPoints |-> BreakPointLists, loader |-> Loaders, sizes |-> {""}]

Inputs ==
  [image : Images, isFluid : BOOLEAN, objectFit : ObjectFits,
   maxWidth : MaxWidths, width : Widths, height : Heights,
   aspectRatio : AspectRatios, alt : {""}, className : {Null},
   breakPoints : BreakPointLists, loader : Loaders, sizes : {""}]

----------------------------------------------------------------------------
(* Instance state: the two hooks *)

\* useState(false)
initialShow == FALSE

\* a handler that toggles instead of setting
onLoadToggling(prev) == ~prev

\* onLoad={() => { setShow(true); }}
onLoad(prev) == TRUE

\* useInView without triggerOnce: the value follows each report
useInViewFollowing(prev, isIntersecting) == isIntersecting

\* useInView({ triggerOnce: true }): false until the observer first reports
\* an intersection; that report disconnects the observer, so the value
\* never changes again
useInView(prev, isIntersecting) == prev \/ isIntersecting

\* a state setter that also updates an unmounted instance
setStateUnguarded(isMounted, prev, next) == next

\* the setter of a hook's state (setShow, and the one inside useInView): the
\* update of an instance that is no longer mounted is dropped
setState(isMounted, prev, next) == IF isMounted THEN next ELSE prev

\* the final image, carrying the load handler, is in the rendered tree
HasFinalImage(o) ==
  /\ o.kind = "raster"
  /\ \E i \in DOMAIN o.ret.children :
       /\ o.ret.children[i].name = "picture"
       /\ \E j \in DOMAIN o.ret.children[i].children :
            o.ret.children[i].children[j].onLoad

----------------------------------------------------------------------------
(* The state machine of one instance *)

Init ==
  /\ props \in Inputs
  /\ show = initialShow
  /\ inView = FALSE
  /\ out = PictureAsset(props, show, inView)
  /\ mounted = ~out.threw
  /\ visSignals = 0
  /\ loadSignals = 0
  /\ lateSignals = 0

\* a re-render that starts from the hooks' initial values
ReRenderResetting ==
  /\ mounted
  /\ \E f \in DOMAIN PropDomain : \E v \in PropDomain[f] :
       props' = [props EXCEPT ![f] = v]
  /\ show' = initialShow
  /\ inView' = FALSE
  /\ out' = PictureAsset(props', show', inView')
  /\ mounted' = ~out'.threw
  /\ UNCHANGED <<visSignals, loadSignals, lateSignals>>

\* the parent renders the instance again, with one prop changed (or none)
ReRender ==
  /\ mounted
  /\ \E f \in DOMAIN PropDomain : \E v \in PropDomain[f] :
       props' = [props EXCEPT ![f] = v]
  /\ out' = PictureAsset(props', show, inView)
  /\ mounted' = ~out'.threw
  /\ UNCHANGED <<show, inView, visSignals, loadSignals, lateSignals>>

\* an intersection report that also reveals the final image
EnterViewportRevealing ==
  /\ mounted
  /\ out.kind = "raster"
  /\ visSignals < MaxSignals
  /\ visSignals' = visSignals + 1
  /\ inView' = useInView(inView, TRUE)
  /\ show' = TRUE
  /\ out' = PictureAsset(props, show', inView')
  /\ UNCHANGED <<props, mounted, loadSignals, lateSignals>>

\* the observer reports that the wrapper, to which ref is attached,
\* intersects the viewport
EnterViewport ==
  /\ mounted
  /\ out.kind = "raster"
  /\ visSignals < MaxSignals
  /\ visSignals' = visSignals + 1
  /\ inView' = useInView(inView, TRUE)
  /\ out' = PictureAsset(props, show, inView')
  /\ UNCHANGED <<props, show, mounted, loadSignals, lateSignals>>

\* the observer would report that the wrapper does not intersect the viewport
LeaveViewport ==
  /\ mounted
  /\ out.kind = "raster"
  /\ inView' = useInView(inView, FALSE)
  /\ out' = PictureAsset(props, show, inView')
  /\ UNCHANGED <<props, show, mounted, visSignals, loadSignals, lateSignals>>

\* the final image fires its load event
ImageLoaded ==
  /\ mounted
  /\ HasFinalImage(out)
  /\ loadSignals < MaxSignals
  /\ loadSignals' = loadSignals + 1
  /\ show' = onLoad(show)
  /\ out' = PictureAsset(props, show', inView)
  /\ UNCHANGED <<props, inView, mounted, visSignals, lateSignals>>

\* the parent removes the instance: nothing is rendered any more, out stays
\* the result of the last render
Unmount ==
  /\ mounted
  /\ mounted' = FALSE
  /\ UNCHANGED <<props, show, inView, out, visSignals, loadSignals, lateSignals>>

\* an intersection report reaches the hook of an instance that is gone
\* (unmounted, or torn down by a render that threw)
LateViewportReport ==
  /\ ~mounted
  /\ lateSignals < MaxSignals
  /\ lateSignals' = lateSignals + 1
  /\ inView' = setState(mounted, inView, useInView(inView, TRUE))
  /\ out' = IF mounted THEN PictureAsset(props, show, inView') ELSE out
  /\ UNCHANGED <<props, show, mounted, visSignals, loadSignals>>

\* the load event of the detached final image reaches onLoad of an instance
\* that is gone
LateImageLoad ==
  /\ ~mounted
  /\ lateSignals < MaxSignals
  /\ lateSignals' = lateSignals + 1
  /\ show' = setState(mounted, show, onLoad(show))
  /\ out' = IF mounted THEN PictureAsset(props, show', inView) ELSE out
  /\ UNCHANGED <<props, inView, mounted, visSignals, loadSignals>>

Next ==
  \/ ReRender
  \/ EnterViewport
  \/ LeaveViewport
  \/ ImageLoaded
  \/ Unmount
  \/ LateViewportReport
  \/ LateImageLoad

Spec == Init /\ [][Next]_vars

----------------------------------------------------------------------------
(* Reading the rendered tree *)

\* the <picture> element of a raster output
PictureOf(o) ==
  LET c == SelectSeq(o.ret.children, LAMBDA e : e.name = "picture") IN c[1]

\* the <source> elements and the final <img> inside <picture>, in order
SourcesOf(o) == SelectSeq(PictureOf(o).children, LAMBDA e : e.name = "source")
FinalImagesOf(o) == SelectSeq(PictureOf(o).children, LAMBDA e : e.name = "img")

\* the spacer elements of a raster output
SpacersOf(o) ==
  SelectSeq(o.ret.children, LAMBDA e : e.className = styles.aspectRatio)

\* the asset carries an identity: a non-empty _ref or _id
HasIdentity(image) ==
  /\ image.asset # Undef
  /\ \/ image.asset._ref \notin {Undef, Null, Str("")}
     \/ image.asset._id \notin {Undef, Null, Str("")}

IsSvg(image) == image.asset # Undef /\ image.asset.extension = "svg"
ValidRaster(image) == HasIdentity(image) /\ ~IsSvg(image)

\* a prop was passed at all (defaultProps turns an omitted width or height
\* into null; an omitted aspectRatio stays undefined)
Supplied(v) == v \notin {Undef, Null}

----------------------------------------------------------------------------
(* C1: while no visibility signal has been received (inView is false) a    *)
(* raster output holds no <source> and no final <img>; from the first      *)
(* visibility signal on, inView stays true and every raster output holds   *)
(* the two sources and the final image, whatever the observer reports      *)
(* afterwards.                                                             *)

C1_SourcesFollowSignal ==
  /\ inView <=> visSignals > 0
  /\ out.kind = "raster" =>
       /\ visSignals = 0 => Len(SourcesOf(out)) = 0 /\ Len(FinalImagesOf(out)) = 0
       /\ visSignals > 0 => Len(SourcesOf(out)) = 2 /\ Len(FinalImagesOf(out)) = 1

C1_VisibleOnceAndForAll ==
  [](C1_SourcesFollowSignal) /\ [][inView => inView']_vars

C1_Witness ==
  /\ visSignals = MaxSignals
  /\ out.kind = "raster"
  /\ Len(SourcesOf(out)) = 2
  /\ Len(FinalImagesOf(out)) = 1

(* C2: show is false for a new instance; it is true exactly when a load    *)
(* event of the final image has been handled, and once true it is never    *)
(* false again, also when the load event fires a second time.              *)

C2_ShownOnceAndForAll ==
  [](show <=> loadSignals > 0) /\ [][show => show']_vars

C2_Witness == loadSignals = MaxSignals /\ show

(* C3: every asset with an identity and extension "svg" renders as one     *)
(* plain <img> whose src is image.asset.url, without throwing or logging,  *)
(* for every combination of the other props.                               *)

C3_SvgAlwaysPlainImage ==
  (HasIdentity(props.image) /\ IsSvg(props.image)) =>
    /\ ~out.threw
    /\ ~out.logged
    /\ out.kind = "svg"
    /\ out.ret.name = "img"
    /\ out.ret.src = props.image.asset.url

(* C4: an image without asset, or whose asset has neither _ref nor _id,    *)
(* renders null, logs an error and does not throw, for every combination   *)
(* of the other props.                                                     *)

C4_InvalidAssetRendersNull ==
  ~HasIdentity(props.image) =>
    /\ ~out.threw
    /\ out.logged
    /\ out.kind = "null"
    /\ out.ret = Null

C4_Witness ==
  /\ props.image.asset # Undef
  /\ ~HasIdentity(props.image)
  /\ IsSvg(props.image)
  /\ ~props.isFluid /\ props.width = Null /\ props.height = Null
  /\ out.kind = "null"
  /\ out.logged

----------------------------------------------------------------------------
(* What the source-set claims expect *)

\* the entries "<url at width b and format> <b>w" of the breakpoints not
\* above the ceiling, in the order of the list, joined by ", "
RECURSIVE ExpectedSrcSet(_, _, _, _)
ExpectedSrcSet(image, format, ceiling, bps) ==
  IF bps = <<>> THEN ""
  ELSE LET n == Len(bps)
           b == bps[n]
           before == ExpectedSrcSet(image, format, ceiling, SubSeq(bps, 1, n - 1))
       IN  IF b * ceiling.d > ceiling.n THEN before
           ELSE (IF before = "" THEN "" ELSE before \o ", ")
                  \o imageUrlFor(image, IntVal(b), format)
                  \o " " \o ToString(b) \o "w"

\* a value is a plain (finite) number
IsNumeric(v) == v.t = "number"

\* the ceiling C8 names
ExpectedCeiling(p) ==
  IF p.isFluid THEN p.maxWidth
  ELSE IF IsNumeric(p.width) THEN p.width ELSE p.maxWidth

RasterVisible == out.kind = "raster" /\ Len(SourcesOf(out)) = 2

\* a width, height or ratio that is passed and is neither 0 nor ""
SuppliedNonZero(v) == Supplied(v) /\ v \notin {IntVal(0), Str("")}

----------------------------------------------------------------------------
(* C5, as claimed: for a valid raster asset the render throws the          *)
(* missing-sizing error exactly when isFluid is false and neither width    *)
(* nor height is supplied.                                                 *)

C5_ThrowsIffNothingSupplied ==
  ValidRaster(props.image) =>
    (out.threw <=>
       (~props.isFluid /\ ~Supplied(props.width) /\ ~Supplied(props.height)))

(* C5, amended: for a valid raster asset the render throws the             *)
(* missing-sizing error, and returns nothing, exactly when isFluid is      *)
(* false and neither a non-zero width nor a non-zero height is supplied (a *)
(* width or height of 0 counts as not supplied).                           *)

C5_ThrowsIffNothingNonZeroSupplied ==
  ValidRaster(props.image) =>
    /\ out.threw <=>
         (~props.isFluid /\ ~SuppliedNonZero(props.width)
            /\ ~SuppliedNonZero(props.height))
    /\ out.threw => out.kind = "throw" /\ ~mounted

C5_Witness ==
  /\ ValidRaster(props.image)
  /\ ~props.isFluid /\ props.width = IntVal(0) /\ props.height = Null
  /\ out.threw

(* C6: in fixed mode with a numeric width W, the native source set and the *)
(* webp source set are the entries of exactly the breakpoints <= W, in the *)
(* order of the list with duplicates kept, joined by ", ", and the empty   *)
(* string when no breakpoint is <= W; [1200,1000,800,600,400] at W = 700   *)
(* keeps 600 and 400.                                                      *)

C6_FixedSourceSets ==
  /\ (RasterVisible /\ ~props.isFluid /\ IsNumeric(props.width)) =>
       /\ SourcesOf(out)[2].srcSet =
            ExpectedSrcSet(props.image, props.image.asset.extension, props.width,
                           props.breakPoints)
       /\ SourcesOf(out)[1].srcSet =
            ExpectedSrcSet(props.image, "webp", props.width, props.breakPoints)
       /\ (\A i \in DOMAIN props.breakPoints : props.breakPoints[i] > props.width.n)
            => SourcesOf(out)[2].srcSet = ""
  /\ ValidRaster(props.image) =>
       breakPointsToString(props.image, "jpg", IntVal(700), defaultBreakpoints)
         = imageUrlFor(props.image, IntVal(600), "jpg") \o " 600w, "
             \o imageUrlFor(props.image, IntVal(400), "jpg") \o " 400w"

C6_Witness ==
  /\ RasterVisible
  /\ ~props.isFluid
  /\ props.width = IntVal(400)
  /\ props.breakPoints = <<400, 700, 400>>
  /\ props.image.asset._id = Str("image-b")
  /\ SourcesOf(out)[2].srcSet =
       "https://cdn.sanity.io/image-b?w=400&fm=jpg 400w, "
         \o "https://cdn.sanity.io/image-b?w=400&fm=jpg 400w"

(* C7: the src of the final image is the URL built at the ceiling the      *)
(* source sets of the same render are filtered at: maxWidth in fluid mode, *)
(* the computed width in fixed mode.                                       *)

C7_DefaultUrlAtCeiling ==
  RasterVisible =>
    FinalImagesOf(out)[1].src = imageUrlFor(props.image, ExpectedCeiling(props), "")

(* C8: both source sets of one render are filtered at the same ceiling:    *)
(* maxWidth in fluid mode, whatever width is; in fixed mode width when it  *)
(* is a number and maxWidth otherwise.                                     *)

C8_CeilingByMode ==
  RasterVisible =>
    /\ SourcesOf(out)[1].srcSet =
         ExpectedSrcSet(props.image, "webp", ExpectedCeiling(props), props.breakPoints)
    /\ SourcesOf(out)[2].srcSet =
         ExpectedSrcSet(props.image, props.image.asset.extension,
                        ExpectedCeiling(props), props.breakPoints)
    /\ FinalImagesOf(out)[1].srcSet = SourcesOf(out)[2].srcSet

C8_Witness ==
  /\ RasterVisible
  /\ props.isFluid
  /\ props.width = IntVal(400)
  /\ props.maxWidth = IntVal(DEFAULT_MAX_WIDTH)
  /\ props.breakPoints = defaultBreakpoints
  /\ props.image.asset._ref = Str("image-a")
  /\ SourcesOf(out)[1].srcSet =
       "https://cdn.sanity.io/image-a?w=1200&fm=webp 1200w, "
         \o "https://cdn.sanity.io/image-a?w=1000&fm=webp 1000w, "
         \o "https://cdn.sanity.io/image-a?w=800&fm=webp 800w, "
         \o "https://cdn.sanity.io/image-a?w=600&fm=webp 600w, "
         \o "https://cdn.sanity.io/image-a?w=400&fm=webp 400w"

(* C9, as claimed: in fixed mode the rendered height is the height prop    *)
(* whenever it is supplied, and width / dimensions.aspectRatio otherwise.  *)

C9_HeightWhenSupplied ==
  (out.kind = "raster" /\ ~props.isFluid) =>
    out.ret.style.height =
      IF Supplied(props.height) THEN props.height
      ELSE JsDiv(props.width, dimensionsAspectRatio(props.image))

(* C9, amended: in fixed mode the rendered height is the height prop when  *)
(* it is supplied and non-zero, and width / dimensions.aspectRatio (never  *)
(* the aspectRatio option) otherwise, a height of 0 counting as not        *)
(* supplied; width 400 without height at an intrinsic ratio of 2 gives     *)
(* 200.                                                                    *)

C9_HeightWhenNonZero ==
  (out.kind = "raster" /\ ~props.isFluid) =>
    /\ out.ret.style.height =
         IF SuppliedNonZero(props.height) THEN props.height
         ELSE JsDiv(props.width, dimensionsAspectRatio(props.image))
    /\ ( /\ props.width = IntVal(400)
         /\ ~Supplied(props.height)
         /\ dimensionsAspectRatio(props.image) = IntVal(2) )
         => out.ret.style.height = IntVal(200)

C9_Witness ==
  /\ out.kind = "raster"
  /\ ~props.isFluid
  /\ props.width = IntVal(400)
  /\ props.height = Null
  /\ props.aspectRatio = IntVal(4)
  /\ dimensionsAspectRatio(props.image) = IntVal(2)
  /\ out.ret.style.height = IntVal(200)

(* C10, as claimed: a fluid output holds one spacer whose paddingTop is    *)
(* 100 / r percent, r being the aspectRatio option whenever it is supplied *)
(* and dimensions.aspectRatio otherwise; a fixed output holds no spacer.   *)

C10_SpacerWhenSupplied ==
  out.kind = "raster" =>
    IF props.isFluid
    THEN /\ Len(SpacersOf(out)) = 1
         /\ SpacersOf(out)[1].style.paddingTop =
              NumberToString(JsDiv(IntVal(100),
                 IF Supplied(props.aspectRatio) THEN props.aspectRatio
                 ELSE dimensionsAspectRatio(props.image))) \o "%"
    ELSE Len(SpacersOf(out)) = 0

(* C10, amended: a fluid output holds one spacer whose paddingTop is       *)
(* 100 / r percent, r being the aspectRatio option when it is supplied and *)
(* non-zero and dimensions.aspectRatio otherwise (an aspectRatio of 0      *)
(* counts as not supplied); without the option and with an intrinsic ratio *)
(* of 0.5 that is 200%; a fixed output holds no spacer.                    *)

C10_SpacerWhenNonZero ==
  out.kind = "raster" =>
    IF props.isFluid
    THEN /\ Len(SpacersOf(out)) = 1
         /\ SpacersOf(out)[1].style.paddingTop =
              NumberToString(JsDiv(IntVal(100),
                 IF SuppliedNonZero(props.aspectRatio) THEN props.aspectRatio
                 ELSE dimensionsAspectRatio(props.image))) \o "%"
         /\ ( /\ ~Supplied(props.aspectRatio)
              /\ dimensionsAspectRatio(props.image) = Num(1, 2) )
              => SpacersOf(out)[1].style.paddingTop = "200%"
    ELSE Len(SpacersOf(out)) = 0

C10_Witness ==
  /\ out.kind = "raster"
  /\ props.isFluid
  /\ props.aspectRatio = Undef
  /\ dimensionsAspectRatio(props.image) = Num(1, 2)
  /\ Len(SpacersOf(out)) = 1
  /\ SpacersOf(out)[1].style.paddingTop = "200%"

----------------------------------------------------------------------------
\* the placeholder layer of a raster output
HiderOf(o) == o.ret.children[1]

(* C11: whenever inView is true, the <picture> of a raster output holds,   *)
(* in this order, the webp source with the webp source set, the source of  *)
(* the asset's mime type with the native source set, and the final <img>   *)
(* whose src is the render's default URL and whose srcSet is the native    *)
(* source set of the same render; only the final <img> carries onLoad.     *)

C12_LayersFollowShow ==
  out.kind = "raster" =>
    /\ HiderOf(out).className = (IF show THEN "hider hide" ELSE "hider")
    /\ PictureOf(out).className = (IF show THEN "picture show" ELSE "picture")

C12_Witness ==
  /\ out.kind = "raster"
  /\ show
  /\ HiderOf(out).className = "hider hide"
  /\ PictureOf(out).className = "picture show"

(* C13: only the load event changes show: as long as no load event has     *)
(* fired, show is false and the placeholder layer is not hidden, whatever  *)
(* intersection reports and re-renders occur, and a step that leaves the   *)
(* props as they are never makes the render throw.                         *)

C13_OnlyLoadReveals ==
  /\ [](loadSignals = 0 =>
          /\ ~show
          /\ out.kind = "raster" => HiderOf(out).className = "hider")
  /\ [][show' # show => loadSignals' = loadSignals + 1]_vars
  /\ [][props' = props => out'.threw = out.threw]_vars

C13_Witness ==
  /\ loadSignals = 0
  /\ visSignals = MaxSignals
  /\ inView
  /\ ~show
  /\ HasFinalImage(out)
  /\ HiderOf(out).className = "hider"

(* C14: a re-render, with any props (also props for which the render       *)
(* returns null or throws), leaves show and inView as they were, and the   *)
(* output is always the one computed from the current props: its kind,     *)
(* box, source sets and default URL.                                       *)

C14_OutputOfCurrentProps ==
  /\ out.kind = "null" <=> ~HasIdentity(props.image)
  /\ out.kind = "svg" => IsSvg(props.image)
  /\ out.kind = "raster" =>
       /\ ValidRaster(props.image)
       /\ out.ret.style.width =
            (IF props.isFluid THEN Str("100%") ELSE ExpectedCeiling(props))
       /\ props.isFluid =>
            out.ret.style.height =
              (IF SuppliedNonZero(props.height) THEN props.height ELSE Str("100%"))
       /\ inView =>
            /\ FinalImagesOf(out)[1].src =
                 imageUrlFor(props.image, props.maxWidth, "")
            /\ FinalImagesOf(out)[1].srcSet =
                 ExpectedSrcSet(props.image, props.image.asset.extension,
                                ExpectedCeiling(props), props.breakPoints)

C14_ReRenderKeepsHookState ==
  /\ [](C14_OutputOfCurrentProps)
  /\ [][props' # props => (show' = show /\ inView' = inView)]_vars

C14_Witness ==
  /\ show
  /\ inView
  /\ out.kind = "null"
  /\ mounted

(* C16: show implies inView in every state, and a load event is handled    *)
(* only while inView is true: the final image, the only element with the   *)
(* load handler, is rendered only when inView.                             *)

C16_ShownImpliesVisible ==
  /\ [](show => inView)
  /\ [][loadSignals' # loadSignals => inView]_vars

C16_Witness ==
  /\ show
  /\ inView
  /\ visSignals = 1
  /\ loadSignals = 1
  /\ out.kind = "raster"

(* C15: once the instance is unmounted, a visibility or load signal that   *)
(* fires afterwards changes nothing: show, inView and the last output stay *)
(* as they were, nothing is rendered and nothing is thrown or logged, in   *)
(* whatever order unmount and the two signals come.                        *)

====
